---- MODULE Spec2Model ----
(***************************************************************************)
(* Model of ingestion.py: the source adapters, the AirspaceGraph loader    *)
(* (Cypher MERGE / SET / MATCH statements against the graph store) and the *)
(* main pipeline.                                                          *)
(*                                                                         *)
(* The graph store is a set of nodes and a set of relationships.  A node   *)
(* keeps the identity the store gives it (nid) apart from its properties,  *)
(* so two nodes with equal properties are still two nodes.                 *)
(***************************************************************************)
EXTENDS Integers, Sequences, FiniteSets, TLC

VARIABLES nodes, rels, last, pc, kg, aircraft_data, metar_data, notams, now, runs, stages,
          responses, finished

vars == <<nodes, rels, last, pc, kg, aircraft_data, metar_data, notams, now, runs, stages,
          responses, finished>>

\* ------------------------------------------------------------------ bounds

\* longest batch (and longest adapter response) handed to a load step
MaxBatch == 2
\* number of pipeline runs against the same store
MaxRuns == 2

\* ------------------------------------------------------------------ values

\* Strings that the code transforms are sequences of characters.
SP == " "
UAL1_raw == <<SP, "U", "A", "L", "1", SP>>
UAL1 == <<"U", "A", "L", "1">>
DLH2 == <<"D", "L", "H", "2">>
NA == <<"N", "/", "A">>
None == "None"

RECURSIVE lstrip(_)
lstrip(s) == IF s # <<>> /\ Head(s) = SP THEN lstrip(Tail(s)) ELSE s

RECURSIVE rstrip(_)
rstrip(s) == IF s # <<>> /\ s[Len(s)] = SP THEN rstrip(SubSeq(s, 1, Len(s) - 1)) ELSE s

\* no trimming at all
strip_none(s) == s

\* str.strip()
strip(s) == rstrip(lstrip(s))

\* dict.get(key, default)
get(d, key, default) == IF key \in DOMAIN d THEN d[key] ELSE default

\* python slice seq[:n]
Take(s, n) == SubSeq(s, 1, IF Len(s) < n THEN Len(s) ELSE n)

\* property map f overwritten by the assignments g
Update(f, g) == [k \in DOMAIN f \cup DOMAIN g |-> IF k \in DOMAIN g THEN g[k] ELSE f[k]]

SeqsUpTo(S, n) == UNION {[1..k -> S] : k \in 0..n}

\* ------------------------------------------------------------------ inputs

\* a normalized aircraft record, as get_opensky_telemetry builds it
Aircraft(icao24, callsign, country, lon, lat, vel, hdg, alt) ==
  [icao24 |-> icao24, callsign |-> callsign, country |-> country, longitude |-> lon,
   latitude |-> lat, velocity |-> vel, heading |-> hdg, altitude |-> alt]

AircraftRecords ==
  { Aircraft("A1", UAL1_raw, "US", -90, 35, 250, 90, 10000),
    Aircraft("A1", UAL1, "US", -90, 35, 250, 90, 10000),
    Aircraft("A1", DLH2, "DE", 8, 50, 200, 180, 2000),
    Aircraft("A2", DLH2, "DE", 8, 50, 200, 180, 2000) }

\* a METAR report as the weather endpoint returns it: every field is optional
WeatherRecords ==
  { [station_id |-> "KATL", raw_text |-> "METAR KATL 1", observation_time |-> "T1"],
    [raw_text |-> "METAR ? 2", observation_time |-> "T2"],
    [raw_text |-> "METAR ? 3"] }

NotamIds == {"NOTAM001", "NOTAM002"}

Notam(id, message, sector_id, from, to) ==
  [id |-> id, message |-> message, sector_id |-> sector_id,
   effective_from |-> from, effective_to |-> to]

NotamRecords ==
  { Notam("NOTAM001", "m1", "S1", 60, 180),
    Notam("NOTAM001", "m2", "S2", 0, 90),
    Notam("NOTAM002", "m1", "S2", 60, 180) }

\* ------------------------------------------------------------------ graph store

Graph == [nodes |-> nodes, rels |-> rels]

Label(n) == n.nid[1]

\* a pattern that binds every node of the label
Matching_label_only(ns, label, pat) == {n \in ns : Label(n) = label}

\* the nodes a pattern (:label {k: v, ...}) matches
Matching(ns, label, pat) ==
  {n \in ns : Label(n) = label
              /\ \A k \in DOMAIN pat : k \in DOMAIN n.props /\ n.props[k] = pat[k]}

\* a fresh node: the store gives it an identity no other node has
NewNode(ns, label, key, pat) ==
  [nid |-> <<label, key, 1 + Cardinality({n \in ns : Label(n) = label /\ n.nid[2] = key})>>,
   props |-> pat]

\* CREATE in place of MERGE: a node is made whether or not one matches
MergeNode_create(ns, label, key, pat) == ns \cup {NewNode(ns, label, key, pat)}

\* MERGE (:label pat): create the node unless some node matches the pattern
MergeNode(ns, label, key, pat) ==
  IF Matching(ns, label, pat) # {} THEN ns ELSE ns \cup {NewNode(ns, label, key, pat)}

\* SET that keeps a property the node already has (first write wins)
SetProps_keep(ns, label, pat, assign) ==
  LET bound == Matching(ns, label, pat)
  IN  {IF n \in bound THEN [n EXCEPT !.props = Update(assign, n.props)] ELSE n : n \in ns}

\* SET of the properties `assign` on every node bound by the pattern
SetProps(ns, label, pat, assign) ==
  LET bound == Matching(ns, label, pat)
  IN  {IF n \in bound THEN [n EXCEPT !.props = Update(n.props, assign)] ELSE n : n \in ns}

\* CREATE in place of MERGE: one more relationship at every upsert
MergeRel_create(rs, n, s) ==
  rs \cup {[src |-> n.nid, dst |-> s.nid,
            copy |-> 1 + Cardinality({r \in rs : r.src = n.nid /\ r.dst = s.nid})]}

\* MERGE (n)-[:restricts]->(s) for one bound pair
MergeRel(rs, n, s) ==
  IF \E r \in rs : r.src = n.nid /\ r.dst = s.nid
  THEN rs
  ELSE rs \cup {[src |-> n.nid, dst |-> s.nid, copy |-> 1]}

RECURSIVE MergeRels(_, _)
MergeRels(rs, pairs) ==
  IF pairs = {} THEN rs
  ELSE LET p == CHOOSE q \in pairs : TRUE
       IN  MergeRels(MergeRel(rs, p[1], p[2]), pairs \ {p})

\* ------------------------------------------------------------------ AirspaceGraph

\* CREATE in place of MERGE for a sector
create_sector_node_create(g, sector) ==
  [g EXCEPT !.nodes = MergeNode_create(g.nodes, "Sector", sector.id,
                                       [id |-> sector.id, name |-> sector.name])]

create_sector_node(g, sector) ==
  [g EXCEPT !.nodes = MergeNode(g.nodes, "Sector", sector.id,
                                [id |-> sector.id, name |-> sector.name])]

create_aircraft_node(g, ac) ==
  LET pat == [icao24 |-> ac.icao24]
      merged == MergeNode(g.nodes, "Aircraft", ac.icao24, pat)
  IN  [g EXCEPT !.nodes =
         SetProps(merged, "Aircraft", pat,
                  [callsign |-> ac.callsign, country |-> ac.country,
                   latitude |-> ac.latitude, longitude |-> ac.longitude,
                   altitude |-> ac.altitude, velocity |-> ac.velocity,
                   heading |-> ac.heading])]

\* MERGE in place of MATCH for the sector: a missing sector is made on the spot
create_notam_node_merge_sector(g, notam) ==
  LET pat == [id |-> notam.id]
      merged == MergeNode(g.nodes, "NOTAM", notam.id, pat)
      updated == SetProps(merged, "NOTAM", pat,
                          [message |-> notam.message,
                           effective_from |-> notam.effective_from,
                           effective_to |-> notam.effective_to])
      withSector == MergeNode(updated, "Sector", notam.sector_id, [id |-> notam.sector_id])
      ns == Matching(withSector, "NOTAM", pat)
      ss == Matching(withSector, "Sector", [id |-> notam.sector_id])
  IN  [nodes |-> withSector, rels |-> MergeRels(g.rels, ns \X ss)]

\* MATCH of the sector ahead of the MERGE of the NOTAM: with no sector there
\* is no row left to write the NOTAM for
create_notam_node_match_first(g, notam) ==
  LET pat == [id |-> notam.id]
      ss == Matching(g.nodes, "Sector", [id |-> notam.sector_id])
      merged == MergeNode(g.nodes, "NOTAM", notam.id, pat)
      updated == SetProps(merged, "NOTAM", pat,
                          [message |-> notam.message,
                           effective_from |-> notam.effective_from,
                           effective_to |-> notam.effective_to])
      ns == Matching(updated, "NOTAM", pat)
  IN  IF ss = {} THEN g ELSE [nodes |-> updated, rels |-> MergeRels(g.rels, ns \X ss)]

\* the relationships of the NOTAM replaced by the one of the new record
create_notam_node_replace_rel(g, notam) ==
  LET pat == [id |-> notam.id]
      merged == MergeNode(g.nodes, "NOTAM", notam.id, pat)
      updated == SetProps(merged, "NOTAM", pat,
                          [message |-> notam.message,
                           effective_from |-> notam.effective_from,
                           effective_to |-> notam.effective_to])
      ns == Matching(updated, "NOTAM", pat)
      ss == Matching(updated, "Sector", [id |-> notam.sector_id])
      kept == {r \in g.rels : ~ \E n \in ns : r.src = n.nid}
  IN  [nodes |-> updated, rels |-> MergeRels(kept, ns \X ss)]

create_notam_node(g, notam) ==
  LET pat == [id |-> notam.id]
      merged == MergeNode(g.nodes, "NOTAM", notam.id, pat)
      updated == SetProps(merged, "NOTAM", pat,
                          [message |-> notam.message,
                           effective_from |-> notam.effective_from,
                           effective_to |-> notam.effective_to])
      ns == Matching(updated, "NOTAM", pat)
      ss == Matching(updated, "Sector", [id |-> notam.sector_id])
  IN  [nodes |-> updated, rels |-> MergeRels(g.rels, ns \X ss)]

\* a report without station_id keyed by its own text
create_weather_node_raw_key(g, wx) ==
  LET pat == [station |-> get(wx, "station_id", get(wx, "raw_text", "N/A"))]
      merged == MergeNode(g.nodes, "WeatherCell", pat.station, pat)
  IN  [g EXCEPT !.nodes =
         SetProps(merged, "WeatherCell", pat,
                  [raw |-> get(wx, "raw_text", "N/A"),
                   obs |-> get(wx, "observation_time", "N/A")])]

create_weather_node(g, wx) ==
  LET pat == [station |-> get(wx, "station_id", "UNKNOWN")]
      merged == MergeNode(g.nodes, "WeatherCell", pat.station, pat)
  IN  [g EXCEPT !.nodes =
         SetProps(merged, "WeatherCell", pat,
                  [raw |-> get(wx, "raw_text", "N/A"),
                   obs |-> get(wx, "observation_time", "N/A")])]

Sectors == << [id |-> "S1", name |-> "NorthZone"], [id |-> "S2", name |-> "EastZone"] >>

\* one record of a batch, each in its own committed transaction (execute_write)
Write(op, g, rec) ==
  CASE op = "insert_sectors" -> create_sector_node(g, rec)
    [] op = "insert_aircraft" -> create_aircraft_node(g, rec)
    [] op = "insert_weather" -> create_weather_node(g, rec)
    [] op = "insert_notams" -> create_notam_node(g, rec)

\* the loop `for r in batch: session.execute_write(...)` over the first n records
RECURSIVE WriteAll(_, _, _, _)
WriteAll(op, g, batch, n) ==
  IF n = 0 THEN g ELSE Write(op, WriteAll(op, g, batch, n - 1), batch[n])

\* the whole batch in one transaction: a failure rolls every record back
Insert_atomic(op, g, batch, failAt) ==
  IF failAt <= Len(batch) THEN g ELSE WriteAll(op, g, batch, Len(batch))

\* A load step.  failAt is the record whose execute_write raises a store error
\* (Len(batch) + 1: none does): the records before it are committed, the loop
\* is left by the exception.
Insert(op, g, batch, failAt) == WriteAll(op, g, batch, failAt - 1)

\* a load step that also raises when it is handed no record
Raised_on_empty(batch, failAt) == failAt <= Len(batch) \/ Len(batch) = 0

Raised(batch, failAt) == failAt <= Len(batch)

FailPoints(batch) == 1..(Len(batch) + 1)

\* ------------------------------------------------------------------ source adapters

\* default cap of get_opensky_telemetry
Limit == 5

\* a state vector of the telemetry endpoint: a positional array, of which the
\* adapter reads indices 0, 1, 2, 5, 6, 9, 10 and 13.  A null or empty callsign
\* is the empty sequence (both are falsy to the adapter).
StateVector(icao24, callsign, country, lon, lat, vel, hdg, alt) ==
  <<icao24, callsign, country, 0, 0, lon, lat, None, FALSE, vel, hdg, None, None, alt,
    None, FALSE, 0>>

\* python's item[i], counted from 0
At(item, i) == item[i + 1]

StateVectors ==
  { StateVector("A1", UAL1_raw, "US", -90, 35, 250, 90, 10000),
    StateVector("A2", <<>>, "DE", 8, 50, 200, 180, 2000) }

\* what requests.get gives: an exception, or a response with a status and a body
Failure == [exc |-> TRUE, status |-> 0, body |-> <<>>]
Response(status, body) == [exc |-> FALSE, status |-> status, body |-> body]

\* an error response may carry a body as well
TelemetryResponses ==
  {Failure} \cup {Response(503, b) : b \in SeqsUpTo(StateVectors, 1)}
    \cup {Response(200, b) : b \in SeqsUpTo(StateVectors, MaxBatch)}

MetarResponses ==
  {Failure} \cup {Response(503, b) : b \in SeqsUpTo(WeatherRecords, 1)}
    \cup {Response(200, b) : b \in SeqsUpTo(WeatherRecords, MaxBatch)}

\* what the two endpoints answered in this run (Unasked: not called yet)
Unasked == [exc |-> FALSE, status |-> 0, body |-> <<>>]
NoResponses == [telemetry |-> Unasked, weather |-> Unasked]

get_opensky_telemetry(response, limit) ==
  IF response.exc THEN <<>>
  ELSE IF response.status = 200
       THEN LET data == Take(response.body, limit)
            IN  [i \in 1..Len(data) |->
                   LET item == data[i]
                   IN  Aircraft(At(item, 0),
                                IF At(item, 1) # <<>> THEN strip(At(item, 1)) ELSE NA,
                                At(item, 2), At(item, 5), At(item, 6), At(item, 9),
                                At(item, 10), At(item, 13))]
       ELSE <<>>

\* the body taken whatever the status is
get_metar_data_any_status(response) ==
  IF response.exc THEN <<>> ELSE response.body

get_metar_data(response) ==
  IF response.exc THEN <<>>
  ELSE IF response.status = 200 THEN response.body ELSE <<>>

\* timedelta(hours=2) and timedelta(hours=1, minutes=30), in minutes
TwoHours == 120
NinetyMinutes == 90

\* the second notice pointing at a sector that insert_sectors does not make
generate_simulated_notams_wrong_sector(t) ==
  << Notam("NOTAM001", "Restricted airspace over Sector S1 due to military activity",
           "S1", t, t + TwoHours),
     Notam("NOTAM002", "Avoid Sector S2 due to severe weather",
           "S3", t, t + NinetyMinutes) >>

generate_simulated_notams(t) ==
  << Notam("NOTAM001", "Restricted airspace over Sector S1 due to military activity",
           "S1", t, t + TwoHours),
     Notam("NOTAM002", "Avoid Sector S2 due to severe weather",
           "S2", t, t + NinetyMinutes) >>

\* ------------------------------------------------------------------ calls of a client

\* the call just made: operation, argument, failing record, returned value
Call(op, arg, failAt, ret) == [op |-> op, arg |-> arg, failAt |-> failAt, ret |-> ret]

NoCall == Call("none", <<>>, 0, "ok")

NoMain ==
  UNCHANGED <<pc, kg, aircraft_data, metar_data, notams, now, runs, stages, responses, finished>>

Load(op, batch, failAt) ==
  LET g == Insert(op, Graph, batch, failAt)
  IN  /\ nodes' = g.nodes
      /\ rels' = g.rels
      /\ last' = Call(op, batch, failAt, IF Raised(batch, failAt) THEN "raised" ELSE "ok")

\* A client of the module holds an open AirspaceGraph and calls its methods and
\* the adapters in any order; `last` is the call it has just made, until it
\* goes on to the next one.
insert_sectors ==
  /\ last = NoCall
  /\ \E failAt \in FailPoints(Sectors) : Load("insert_sectors", Sectors, failAt)
  /\ NoMain

insert_aircraft ==
  /\ last = NoCall
  /\ \E batch \in SeqsUpTo(AircraftRecords, MaxBatch) : \E failAt \in FailPoints(batch) :
       Load("insert_aircraft", batch, failAt)
  /\ NoMain

insert_weather ==
  /\ last = NoCall
  /\ \E batch \in SeqsUpTo(WeatherRecords, MaxBatch) : \E failAt \in FailPoints(batch) :
       Load("insert_weather", batch, failAt)
  /\ NoMain

insert_notams ==
  /\ last = NoCall
  /\ \E batch \in SeqsUpTo(NotamRecords, MaxBatch) : \E failAt \in FailPoints(batch) :
       Load("insert_notams", batch, failAt)
  /\ NoMain

fetch_telemetry ==
  /\ last = NoCall
  /\ \E response \in TelemetryResponses :
       last' = Call("get_opensky_telemetry", response, 0,
                    get_opensky_telemetry(response, Limit))
  /\ UNCHANGED <<nodes, rels>>
  /\ NoMain

\* sector records a caller may hand to _create_sector_node: the two of
\* insert_sectors, and S1 under another display name
SectorRecords ==
  { [id |-> "S1", name |-> "NorthZone"], [id |-> "S2", name |-> "EastZone"],
    [id |-> "S1", name |-> "North Zone"] }

\* session.execute_write(AirspaceGraph._create_sector_node, sector)
create_sector ==
  /\ last = NoCall
  /\ \E sector \in SectorRecords :
       LET g == create_sector_node(Graph, sector)
       IN  /\ nodes' = g.nodes
           /\ rels' = g.rels
           /\ last' = Call("_create_sector_node", <<sector>>, 2, "ok")
  /\ NoMain

\* the client goes on to its next call
go_on ==
  /\ last # NoCall
  /\ last' = NoCall
  /\ UNCHANGED <<nodes, rels>>
  /\ NoMain

\* ------------------------------------------------------------------ main

\* NOTAMs loaded before the sectors
Following_notams_first(stage) ==
  CASE stage = "fetch_telemetry" -> "fetch_weather"
    [] stage = "fetch_weather" -> "generate_notams"
    [] stage = "generate_notams" -> "connect"
    [] stage = "connect" -> "load_notams"
    [] stage = "load_notams" -> "load_aircraft"
    [] stage = "load_aircraft" -> "load_weather"
    [] stage = "load_weather" -> "load_sectors"
    [] stage = "load_sectors" -> "close"
    [] stage = "close" -> "done"

\* the statements of main, in program order
Following(stage) ==
  CASE stage = "fetch_telemetry" -> "fetch_weather"
    [] stage = "fetch_weather" -> "generate_notams"
    [] stage = "generate_notams" -> "connect"
    [] stage = "connect" -> "load_sectors"
    [] stage = "load_sectors" -> "load_aircraft"
    [] stage = "load_aircraft" -> "load_weather"
    [] stage = "load_weather" -> "load_notams"
    [] stage = "load_notams" -> "close"
    [] stage = "close" -> "done"

\* the statement at pc completed: go to the next one
Completed ==
  /\ pc' = Following(pc)
  /\ stages' = Append(stages, pc)

\* the exception is caught and main goes on with its next statement
Propagated_swallowed ==
  /\ pc' = Following(pc)
  /\ stages' = stages

\* the statement at pc raised: nothing in main catches it
Propagated ==
  /\ pc' = "aborted"
  /\ stages' = stages

main_fetch_telemetry ==
  /\ pc = "fetch_telemetry"
  /\ \E response \in TelemetryResponses :
       /\ aircraft_data' = get_opensky_telemetry(response, Limit)
       /\ responses' = [responses EXCEPT !.telemetry = response]
  /\ Completed
  /\ UNCHANGED <<nodes, rels, last, kg, metar_data, notams, now, runs, finished>>

main_fetch_weather ==
  /\ pc = "fetch_weather"
  /\ \E response \in MetarResponses :
       /\ metar_data' = get_metar_data(response)
       /\ responses' = [responses EXCEPT !.weather = response]
  /\ Completed
  /\ UNCHANGED <<nodes, rels, last, kg, aircraft_data, notams, now, runs, finished>>

main_generate_notams ==
  /\ pc = "generate_notams"
  /\ notams' = generate_simulated_notams(now)
  /\ Completed
  /\ UNCHANGED <<nodes, rels, last, kg, aircraft_data, metar_data, now, runs, responses,
                 finished>>

\* kg = AirspaceGraph(): GraphDatabase.driver either gives a driver or raises
main_connect ==
  /\ pc = "connect"
  /\ \/ kg' = "open" /\ Completed
     \/ kg' = kg /\ Propagated
  /\ UNCHANGED <<nodes, rels, last, aircraft_data, metar_data, notams, now, runs, responses,
                 finished>>

MainLoad(op, batch) ==
  /\ \E failAt \in FailPoints(batch) :
       /\ Load(op, batch, failAt)
       /\ IF Raised(batch, failAt) THEN Propagated ELSE Completed
  /\ UNCHANGED <<kg, aircraft_data, metar_data, notams, now, runs, responses, finished>>

main_insert_sectors ==
  /\ pc = "load_sectors"
  /\ MainLoad("insert_sectors", Sectors)

main_insert_aircraft ==
  /\ pc = "load_aircraft"
  /\ MainLoad("insert_aircraft", aircraft_data)

main_insert_weather ==
  /\ pc = "load_weather"
  /\ MainLoad("insert_weather", metar_data)

main_insert_notams ==
  /\ pc = "load_notams"
  /\ MainLoad("insert_notams", notams)

main_close ==
  /\ pc = "close"
  /\ kg' = "closed"
  /\ Completed
  /\ finished' = finished + 1
  /\ UNCHANGED <<nodes, rels, last, aircraft_data, metar_data, notams, now, runs, responses>>

\* minutes between two runs of the program
RunGap == 60

\* the process has exited; the program is run again against the same store
main_again ==
  /\ pc \in {"done", "aborted"}
  /\ runs < MaxRuns
  /\ runs' = runs + 1
  /\ now' = now + RunGap
  /\ pc' = "fetch_telemetry"
  /\ kg' = "none"
  /\ last' = NoCall
  /\ aircraft_data' = <<>>
  /\ metar_data' = <<>>
  /\ notams' = <<>>
  /\ stages' = <<>>
  /\ responses' = NoResponses
  /\ UNCHANGED <<nodes, rels, finished>>

MainInit ==
  /\ nodes = {}
  /\ rels = {}
  /\ last = NoCall
  /\ pc = "fetch_telemetry"
  /\ kg = "none"
  /\ aircraft_data = <<>>
  /\ metar_data = <<>>
  /\ notams = <<>>
  /\ now = 0
  /\ runs = 1
  /\ stages = <<>>
  /\ responses = NoResponses
  /\ finished = 0

MainNext ==
  \/ main_fetch_telemetry
  \/ main_fetch_weather
  \/ main_generate_notams
  \/ main_connect
  \/ main_insert_sectors
  \/ main_insert_aircraft
  \/ main_insert_weather
  \/ main_insert_notams
  \/ main_close
  \/ main_again

MainSpec == MainInit /\ [][MainNext]_vars

\* ------------------------------------------------------------------ client

Init ==
  /\ nodes = {}
  /\ rels = {}
  /\ last = NoCall
  /\ pc = "client"
  /\ kg = "open"
  /\ aircraft_data = <<>>
  /\ metar_data = <<>>
  /\ notams = <<>>
  /\ now = 0
  /\ runs = 0
  /\ stages = <<>>
  /\ responses = NoResponses
  /\ finished = 0

Next ==
  \/ insert_sectors
  \/ insert_aircraft
  \/ insert_weather
  \/ insert_notams
  \/ fetch_telemetry
  \/ go_on

Spec == Init /\ [][Next]_vars

\* a client that also upserts sector records of its own
SectorNext ==
  \/ insert_sectors
  \/ create_sector
  \/ insert_notams
  \/ go_on

SectorSpec == Init /\ [][SectorNext]_vars

\* ------------------------------------------------------------------ reading the graph

IdentityKey(label) ==
  CASE label = "Aircraft" -> "icao24"
    [] label = "WeatherCell" -> "station"
    [] label = "Sector" -> "id"
    [] label = "NOTAM" -> "id"

KeyOf(n) == n.props[IdentityKey(Label(n))]

NodesOf(ns, label, key) == {n \in ns : Label(n) = label /\ KeyOf(n) = key}

\* the relationships leaving the NOTAM nodes with id `id`
RelsFrom(ns, rs, id) == {r \in rs : \E n \in NodesOf(ns, "NOTAM", id) : r.src = n.nid}

Upserts == {"insert_aircraft", "insert_weather", "insert_notams"}

LabelOf(op) ==
  CASE op = "insert_aircraft" -> "Aircraft"
    [] op = "insert_weather" -> "WeatherCell"
    [] op = "insert_notams" -> "NOTAM"
    [] op = "insert_sectors" -> "Sector"

\* the identity key a record is stored under
RecKey(op, r) ==
  CASE op = "insert_aircraft" -> r.icao24
    [] op = "insert_weather" -> IF "station_id" \in DOMAIN r THEN r.station_id ELSE "UNKNOWN"
    [] op = "insert_notams" -> r.id
    [] op = "insert_sectors" -> r.id

\* the properties a node holds when record r was the last one written to it
Stored(op, r) ==
  CASE op = "insert_aircraft" ->
         [icao24 |-> r.icao24, callsign |-> r.callsign, country |-> r.country,
          latitude |-> r.latitude, longitude |-> r.longitude, altitude |-> r.altitude,
          velocity |-> r.velocity, heading |-> r.heading]
    [] op = "insert_weather" ->
         [station |-> RecKey(op, r),
          raw |-> IF "raw_text" \in DOMAIN r THEN r.raw_text ELSE "N/A",
          obs |-> IF "observation_time" \in DOMAIN r THEN r.observation_time ELSE "N/A"]
    [] op = "insert_notams" ->
         [id |-> r.id, message |-> r.message, effective_from |-> r.effective_from,
          effective_to |-> r.effective_to]
    [] op = "insert_sectors" -> [id |-> r.id, name |-> r.name]

\* the records of a call that were written before it returned or raised
Written(call) == SubSeq(call.arg, 1, call.failAt - 1)

\* record i is the last one of the sequence with its key
LastOfKey(op, recs, i) ==
  \A j \in (i + 1)..Len(recs) : RecKey(op, recs[j]) # RecKey(op, recs[i])

\* ------------------------------------------------------------------ claims

\* C1: whatever insert_sectors, insert_aircraft, insert_weather and
\* insert_notams calls were made, the graph holds at most one node per entity
\* type and identity-key value.
C1_UniqueIdentityKeys ==
  \A n \in nodes : \A m \in nodes :
    (Label(n) = Label(m) /\ KeyOf(n) = KeyOf(m)) => n = m

\* C1 witness: a record was written again under a key that already had a node,
\* with nodes of all four types in the graph.
C1_Witness ==
  /\ last.op = "insert_aircraft" /\ last.ret = "ok" /\ Len(last.arg) = 2
  /\ last.arg[1].icao24 = last.arg[2].icao24
  /\ \A label \in {"Aircraft", "WeatherCell", "Sector", "NOTAM"} :
       \E n \in nodes : Label(n) = label

\* C2: right after the upsert of a record r (Aircraft, WeatherCell or NOTAM),
\* applying the upsert of r once more gives exactly the same graph (nodes,
\* attributes, relationships), and exactly one node has r's key.
C2_UpsertIdempotent ==
  (last.op \in Upserts /\ Len(Written(last)) >= 1) =>
    LET r == Written(last)[Len(Written(last))]
    IN  /\ Write(last.op, Graph, r) = Graph
        /\ Cardinality(NodesOf(nodes, LabelOf(last.op), RecKey(last.op, r))) = 1

\* C2 witness: a NOTAM was upserted twice in a row while its sector exists, so
\* that the second upsert meets the node and the relationship of the first.
C2_Witness ==
  /\ last.op = "insert_notams" /\ last.ret = "ok" /\ Len(last.arg) = 2
  /\ last.arg[1] = last.arg[2]
  /\ RelsFrom(nodes, rels, last.arg[1].id) # {}

\* C3: after records with the same identity key were upserted one after the
\* other, the single node of that key holds the values of the last one in every
\* attribute, whatever the earlier values were, and its identity key is that key.
C3_LastWriteWins ==
  last.op \in Upserts =>
    \A i \in 1..Len(Written(last)) :
      LastOfKey(last.op, Written(last), i) =>
        \E n \in nodes :
          /\ NodesOf(nodes, LabelOf(last.op), RecKey(last.op, Written(last)[i])) = {n}
          /\ n.props = Stored(last.op, Written(last)[i])

\* C3 witness: two aircraft records with the same icao24 and different
\* attributes were upserted in this order.
C3_Witness ==
  /\ last.op = "insert_aircraft" /\ last.ret = "ok" /\ Len(last.arg) = 2
  /\ last.arg[1].icao24 = last.arg[2].icao24
  /\ last.arg[1].altitude # last.arg[2].altitude
  /\ \E n \in nodes : Label(n) = "Aircraft" /\ n.props.altitude = last.arg[2].altitude

\* C4: a NOTAM upserted while no Sector node has its sector_id gets no restricts
\* relationship; insert_sectors never creates a relationship; and the
\* relationships of a NOTAM change only when that NOTAM is upserted.
C4_NoRetroactiveAttach ==
  [][ /\ last'.op = "insert_sectors" => rels' = rels
      /\ \A id \in NotamIds :
           RelsFrom(nodes', rels', id) # RelsFrom(nodes, rels, id) =>
             /\ last'.op = "insert_notams"
             /\ \E i \in 1..Len(Written(last')) :
                  /\ Written(last')[i].id = id
                  /\ Written(last')[i].sector_id \in
                       {KeyOf(s) : s \in {m \in nodes : Label(m) = "Sector"}}
    ]_vars

\* C4 witness: both sectors were loaded after a NOTAM that is still unattached.
C4_Witness ==
  /\ last.op = "insert_sectors" /\ last.ret = "ok"
  /\ \E n \in nodes : Label(n) = "NOTAM" /\ ~ \E r \in rels : r.src = n.nid

\* C5 (as claimed): in every run that opened the store connection, the
\* connection is closed once main is left, by return or by a store error.
C5_ClosedOnEveryExit ==
  (pc \in {"done", "aborted"} /\ kg # "none") => kg = "closed"

ClaimedOrder ==
  << "fetch_telemetry", "fetch_weather", "generate_notams", "load_sectors",
     "load_aircraft", "load_weather", "load_notams", "close" >>

IsClaimedStage(st) == \E i \in 1..Len(ClaimedOrder) : ClaimedOrder[i] = st

\* C6: the stages a run has completed are a prefix of fetch-telemetry,
\* fetch-weather, generate-notams, load sectors, load aircraft, load weather,
\* load notams, close; the stage about to start is the next one of that order;
\* and a NOTAM is written only in a run whose sector load has completed.
C6_StageOrder ==
  LET done == SelectSeq(stages, IsClaimedStage)
  IN  /\ Len(done) <= Len(ClaimedOrder)
      /\ done = SubSeq(ClaimedOrder, 1, Len(done))
      /\ IsClaimedStage(pc) => pc = ClaimedOrder[Len(done) + 1]
      /\ (last.op = "insert_notams" /\ Len(Written(last)) >= 1) =>
           /\ \E i \in 1..Len(stages) : stages[i] = "load_sectors"
           /\ \A i \in 1..Len(Sectors) : NodesOf(nodes, "Sector", Sectors[i].id) # {}

\* C6 witness: a run went through every stage and wrote both NOTAMs.
C6_Witness ==
  /\ pc = "done"
  /\ SelectSeq(stages, IsClaimedStage) = ClaimedOrder
  /\ last.op = "insert_notams" /\ Len(Written(last)) = Len(notams)
  /\ Len(notams) >= 1

\* C7: after insert_sectors has returned, whatever the graph was before and
\* however often it was called, the Sector nodes are exactly two, S1/NorthZone
\* and S2/EastZone.
C7_SectorsIdempotent ==
  (last.op = "insert_sectors" /\ last.ret = "ok") =>
    LET ss == {n \in nodes : Label(n) = "Sector"}
    IN  /\ Cardinality(ss) = 2
        /\ {n.props : n \in ss} =
             {[id |-> "S1", name |-> "NorthZone"], [id |-> "S2", name |-> "EastZone"]}

\* C7 witness: insert_sectors returned in a graph that already had a
\* relationship, that is, whose sectors had been loaded before.
C7_Witness ==
  /\ last.op = "insert_sectors" /\ last.ret = "ok"
  /\ rels # {}

C8_Record == Aircraft("A1", UAL1_raw, "US", -90, 35, 250, 90, 10000)
C8_Trimmed == Aircraft("A1", UAL1, "US", -90, 35, 250, 90, 10000)
C8_Vector == StateVector("A1", UAL1_raw, "US", -90, 35, 250, 90, 10000)

\* C8 (as claimed): upserting the aircraft record with callsign " UAL1 " leaves
\* a node whose callsign is "UAL1" and whose other fields are those of the input.
C8_UpsertTrims ==
  (last.op = "insert_aircraft" /\ last.ret = "ok" /\ last.arg = <<C8_Record>>) =>
    \E n \in nodes :
      /\ NodesOf(nodes, "Aircraft", "A1") = {n}
      /\ n.props = Stored("insert_aircraft", C8_Trimmed)

\* C8 (amended): the telemetry adapter turns the state vector with callsign
\* " UAL1 " into the record with callsign "UAL1" and the other fields verbatim,
\* and the upsert stores the record it is given verbatim, callsign included:
\* "UAL1" for the adapter's record, " UAL1 " for the untrimmed one.
C8_AdapterTrims ==
  /\ (last.op = "get_opensky_telemetry" /\ ~ last.arg.exc /\ last.arg.status = 200) =>
       \A i \in 1..Len(last.arg.body) :
         (i <= Limit /\ last.arg.body[i] = C8_Vector) => last.ret[i] = C8_Trimmed
  /\ \A r \in {C8_Record, C8_Trimmed} :
       (last.op = "insert_aircraft" /\ last.ret = "ok" /\ last.arg = <<r>>) =>
         \E n \in nodes :
           /\ NodesOf(nodes, "Aircraft", "A1") = {n}
           /\ n.props.callsign = r.callsign
           /\ n.props = Stored("insert_aircraft", r)

\* C8 witness: the record the adapter makes of the state vector was upserted
\* and the node holds the trimmed callsign.
C8_Witness ==
  /\ last.op = "insert_aircraft" /\ last.ret = "ok" /\ last.arg = <<C8_Trimmed>>
  /\ \E n \in nodes : Label(n) = "Aircraft" /\ n.props.callsign = UAL1

\* C9 (as claimed): no NOTAM node has restricts relationships to two different
\* Sector nodes.
C9_AtMostOneSector ==
  \A n \in nodes :
    Label(n) = "NOTAM" => Cardinality({r.dst : r \in {q \in rels : q.src = n.nid}}) <= 1

\* C10: when the write of the k-th record of a batch fails, the records before
\* it are in the graph as written (the last one of each key), and the records
\* from the k-th on have left no trace: a key only they carry has the nodes and
\* relationships it had before the call.
C10_BatchNotAtomic ==
  [][ (last'.op \in Upserts /\ last'.ret = "raised") =>
        LET op == last'.op
            batch == last'.arg
            k == last'.failAt
            before == SubSeq(batch, 1, k - 1)
        IN  /\ \A i \in 1..(k - 1) :
                 LastOfKey(op, before, i) =>
                   \E n \in nodes' :
                     /\ NodesOf(nodes', LabelOf(op), RecKey(op, batch[i])) = {n}
                     /\ n.props = Stored(op, batch[i])
            /\ \A i \in k..Len(batch) :
                 (\A j \in 1..(k - 1) : RecKey(op, batch[j]) # RecKey(op, batch[i])) =>
                   /\ NodesOf(nodes', LabelOf(op), RecKey(op, batch[i]))
                        = NodesOf(nodes, LabelOf(op), RecKey(op, batch[i]))
                   /\ op = "insert_notams" =>
                        RelsFrom(nodes', rels', batch[i].id) = RelsFrom(nodes, rels, batch[i].id)
    ]_vars

\* C10 witness: the second record of a batch failed; the first one is in the
\* graph and the key of the second has no node.
C10_Witness ==
  /\ last.op = "insert_aircraft" /\ last.ret = "raised"
  /\ Len(last.arg) = 2 /\ last.failAt = 2
  /\ NodesOf(nodes, "Aircraft", last.arg[1].icao24) # {}
  /\ NodesOf(nodes, "Aircraft", last.arg[2].icao24) = {}

SectorNodes(ns) == {n \in ns : Label(n) = "Sector"}

\* C11: an insert_notams call never creates a Sector node; a record it writes
\* whose sector_id matches no Sector node still leaves its NOTAM node, with the
\* record's message and effective-from/to when it is the last record of that
\* id; a NOTAM all of whose written records lack their sector gets no
\* relationship; and a call that returns has written every record of the batch.
C11_MissingSectorAbsorbed ==
  [][ last'.op = "insert_notams" =>
        LET w == Written(last')
            existing == {KeyOf(sec) : sec \in SectorNodes(nodes)}
        IN  /\ SectorNodes(nodes') = SectorNodes(nodes)
            /\ \A i \in 1..Len(w) :
                 w[i].sector_id \notin existing =>
                   /\ NodesOf(nodes', "NOTAM", w[i].id) # {}
                   /\ LastOfKey("insert_notams", w, i) =>
                        \E n \in nodes' :
                          /\ NodesOf(nodes', "NOTAM", w[i].id) = {n}
                          /\ n.props = Stored("insert_notams", w[i])
                   /\ (\A j \in 1..Len(w) :
                         w[j].id = w[i].id => w[j].sector_id \notin existing) =>
                        RelsFrom(nodes', rels', w[i].id) = RelsFrom(nodes, rels, w[i].id)
            /\ last'.ret = "ok" =>
                 /\ Len(w) = Len(last'.arg)
                 /\ \A i \in 1..Len(last'.arg) :
                      NodesOf(nodes', "NOTAM", last'.arg[i].id) # {}
    ]_vars

\* C11 witness: a batch of two NOTAMs returned; the sector of the first does
\* not exist, the first has its node and no relationship, the second was
\* written after it.
C11_Witness ==
  /\ last.op = "insert_notams" /\ last.ret = "ok" /\ Len(last.arg) = 2
  /\ last.arg[1].id # last.arg[2].id
  /\ NodesOf(nodes, "Sector", last.arg[1].sector_id) = {}
  /\ NodesOf(nodes, "NOTAM", last.arg[1].id) # {}
  /\ RelsFrom(nodes, rels, last.arg[1].id) = {}
  /\ NodesOf(nodes, "NOTAM", last.arg[2].id) # {}

\* C12: with an empty telemetry result the aircraft load writes nothing and
\* cannot fail; main goes on to the weather load, and from there a load that
\* returns is followed by the NOTAM load, by close and by the end of the run.
C12_EmptyTelemetry ==
  [][ aircraft_data = <<>> =>
        /\ pc = "load_aircraft" =>
             /\ nodes' = nodes /\ rels' = rels
             /\ last'.ret = "ok"
             /\ pc' = "load_weather"
        /\ (pc = "load_weather" /\ last'.ret = "ok") => pc' = "load_notams"
        /\ (pc = "load_notams" /\ last'.ret = "ok") => pc' = "close"
        /\ pc = "close" => pc' = "done"
    ]_vars

\* C12 witness: a run with an empty telemetry result ended normally, with no
\* Aircraft node and with the weather and the NOTAMs loaded.
C12_Witness ==
  /\ pc = "done" /\ aircraft_data = <<>> /\ metar_data # <<>>
  /\ responses.telemetry = Response(200, <<>>)
  /\ ~ \E n \in nodes : Label(n) = "Aircraft"
  /\ \E n \in nodes : Label(n) = "WeatherCell"
  /\ \E n \in nodes : Label(n) = "NOTAM"

\* the endpoint did not answer with a 200
Failed(response) == response.exc \/ response.status # 200

HasDone(stage) == \E i \in 1..Len(stages) : stages[i] = stage

LoadStages == {"load_sectors", "load_aircraft", "load_weather", "load_notams"}

\* C13: when an endpoint raised or answered with another status than 200, its
\* adapter has returned the empty sequence; no run is aborted before the three
\* sources were read; the other source's data is what its endpoint sent, and
\* each load is handed the data of its own source.
C13_AdapterFailuresSwallowed ==
  /\ (HasDone("fetch_telemetry") /\ Failed(responses.telemetry)) => aircraft_data = <<>>
  /\ (HasDone("fetch_weather") /\ Failed(responses.weather)) => metar_data = <<>>
  /\ pc = "aborted" => HasDone("generate_notams")
  /\ (HasDone("fetch_weather") /\ ~ Failed(responses.weather)) =>
       metar_data = responses.weather.body
  /\ (HasDone("fetch_telemetry") /\ ~ Failed(responses.telemetry)) =>
       /\ Len(aircraft_data) = Len(responses.telemetry.body)
       /\ \A i \in 1..Len(aircraft_data) :
            aircraft_data[i].icao24 = responses.telemetry.body[i][1]
  /\ last.op = "insert_aircraft" => last.arg = aircraft_data
  /\ last.op = "insert_weather" => last.arg = metar_data
  /\ last.op = "insert_notams" => last.arg = notams

\* C13 witness: the telemetry call raised, the weather endpoint answered, and
\* the run ended normally with the weather and the NOTAMs in the graph.
C13_Witness ==
  /\ pc = "done"
  /\ responses.telemetry.exc
  /\ ~ Failed(responses.weather) /\ metar_data # <<>>
  /\ \E n \in nodes : Label(n) = "WeatherCell"
  /\ \E n \in nodes : Label(n) = "NOTAM"

\* C14: a load step whose store write fails aborts main; the failing record
\* and the ones after it leave no trace; and an aborted run writes nothing
\* more and never ends normally: all that follows it is a new run.
C14_StoreFailureFatal ==
  [][ /\ (pc \in LoadStages /\ last'.ret = "raised") =>
           LET op == last'.op
               batch == last'.arg
               k == last'.failAt
           IN  /\ pc' = "aborted"
               /\ \A i \in k..Len(batch) :
                    (\A j \in 1..(k - 1) : RecKey(op, batch[j]) # RecKey(op, batch[i])) =>
                      /\ NodesOf(nodes', LabelOf(op), RecKey(op, batch[i]))
                           = NodesOf(nodes, LabelOf(op), RecKey(op, batch[i]))
                      /\ op = "insert_notams" =>
                           RelsFrom(nodes', rels', batch[i].id)
                             = RelsFrom(nodes, rels, batch[i].id)
      /\ pc = "aborted" =>
           /\ nodes' = nodes /\ rels' = rels
           /\ finished' = finished
           /\ pc' = "fetch_telemetry" /\ runs' = runs + 1
    ]_vars

\* C14 witness: the weather load of the first run failed at its second record;
\* the run is aborted and no NOTAM was written.
C14_Witness ==
  /\ pc = "aborted" /\ runs = 1
  /\ last.op = "insert_weather" /\ last.ret = "raised" /\ last.failAt = 2
  /\ \E n \in nodes : Label(n) = "WeatherCell"
  /\ ~ \E n \in nodes : Label(n) = "NOTAM"

\* C15: no step removes a node or changes its type or identity key, and no
\* step removes a relationship.
C15_Monotone ==
  [][ /\ \A n \in nodes :
           \E m \in nodes' :
             m.nid = n.nid /\ Label(m) = Label(n) /\ KeyOf(m) = KeyOf(n)
      /\ rels \subseteq rels'
    ]_vars

\* C15 witness: a NOTAM was upserted again with another sector and has kept the
\* relationship of its earlier upsert beside the new one.
C15_Witness ==
  /\ last.op = "insert_notams" /\ last.ret = "ok" /\ Len(last.arg) = 1
  /\ Cardinality(RelsFrom(nodes, rels, last.arg[1].id)) = 2

\* C16 (as claimed): upserting a Sector record whose id already has a node
\* matches that node whatever the record's name, so that the id has one node.
C16_SectorMatchedByIdAlone ==
  last.op = "_create_sector_node" =>
    Cardinality(NodesOf(nodes, "Sector", last.arg[1].id)) = 1

\* the restricts relationships from a NOTAM node with id `id` to a Sector node
\* with id `sid`
RelsBetween(id, sid) ==
  {r \in rels : /\ \E n \in NodesOf(nodes, "NOTAM", id) : r.src = n.nid
                /\ \E sec \in NodesOf(nodes, "Sector", sid) : r.dst = sec.nid}

\* C17: no two relationships join the same NOTAM node and Sector node; after
\* insert_notams, however often the record was upserted before, every written
\* record whose sector exists has exactly one relationship from its NOTAM to
\* its Sector; and once a pipeline run has completed, in that run and in every
\* later one, the graph holds exactly two relationships.
C17_AttachIdempotent ==
  /\ \A r1 \in rels : \A r2 \in rels :
       (r1.src = r2.src /\ r1.dst = r2.dst) => r1 = r2
  /\ last.op = "insert_notams" =>
       \A i \in 1..Len(Written(last)) :
         NodesOf(nodes, "Sector", Written(last)[i].sector_id) # {} =>
           Cardinality(RelsBetween(Written(last)[i].id, Written(last)[i].sector_id)) = 1
  /\ (finished >= 1 \/ HasDone("load_notams")) => Cardinality(rels) = 2

\* C17 witness: two pipeline runs have completed, the second one upserting the
\* NOTAMs of the first again.
C17_Witness ==
  /\ finished = 2 /\ pc = "done"
  /\ Cardinality(rels) = 2
  /\ Cardinality(RelsBetween("NOTAM001", "S1")) = 1
  /\ Cardinality(RelsBetween("NOTAM002", "S2")) = 1

\* C18: when main has got past its four loads, whatever the adapters returned,
\* the graph holds Sector S1 and S2, NOTAM001 and NOTAM002, and the
\* relationships NOTAM001 -> S1 and NOTAM002 -> S2.
C18_RunPostcondition ==
  pc \in {"close", "done"} =>
    /\ \A sid \in {"S1", "S2"} : Cardinality(NodesOf(nodes, "Sector", sid)) = 1
    /\ \A id \in {"NOTAM001", "NOTAM002"} : Cardinality(NodesOf(nodes, "NOTAM", id)) = 1
    /\ RelsBetween("NOTAM001", "S1") # {}
    /\ RelsBetween("NOTAM002", "S2") # {}
    /\ \A n \in nodes : Label(n) = "NOTAM" => \E r \in rels : r.src = n.nid

\* C18 witness: both adapters failed and the run reached close with the two
\* NOTAMs attached.
C18_Witness ==
  /\ pc = "close"
  /\ Failed(responses.telemetry) /\ Failed(responses.weather)
  /\ RelsBetween("NOTAM001", "S1") # {}
  /\ RelsBetween("NOTAM002", "S2") # {}

\* the positions of the written records that carry no station_id
Keyless(recs) == {i \in 1..Len(recs) : "station_id" \notin DOMAIN recs[i]}

\* C19: after insert_weather has written records without station_id, exactly
\* one WeatherCell node has station "UNKNOWN", and its raw and observed_at are
\* those of the last such record, "N/A" standing for a missing raw_text or
\* observation_time.
C19_KeylessWeatherShareUnknown ==
  (last.op = "insert_weather" /\ Keyless(Written(last)) # {}) =>
    LET k == Keyless(Written(last))
        r == Written(last)[CHOOSE i \in k : \A j \in k : j <= i]
    IN  \E n \in nodes :
          /\ {m \in nodes : Label(m) = "WeatherCell" /\ m.props.station = "UNKNOWN"} = {n}
          /\ n.props.raw = (IF "raw_text" \in DOMAIN r THEN r.raw_text ELSE "N/A")
          /\ n.props.obs =
               (IF "observation_time" \in DOMAIN r THEN r.observation_time ELSE "N/A")

\* C19 witness: a batch of two different reports without station_id was
\* loaded; the second, which has no observation_time, overwrote the first.
C19_Witness ==
  /\ last.op = "insert_weather" /\ last.ret = "ok" /\ Len(last.arg) = 2
  /\ Keyless(last.arg) = {1, 2}
  /\ last.arg[1] # last.arg[2]
  /\ "observation_time" \notin DOMAIN last.arg[2]
  /\ \E n \in nodes :
       /\ Label(n) = "WeatherCell" /\ n.props.station = "UNKNOWN"
       /\ n.props.raw = last.arg[2].raw_text /\ n.props.obs = "N/A"

\* C20: a load changes no node of another type and no node of its type whose
\* key is not the key of a record it wrote, and creates no such node; it
\* changes no relationship other than those leaving a NOTAM it wrote.
C20_Frame ==
  [][ last'.op \in Upserts \cup {"insert_sectors"} =>
        LET op == last'.op
            w == Written(last')
            keys == {RecKey(op, w[i]) : i \in 1..Len(w)}
            Outside(n) == Label(n) # LabelOf(op) \/ KeyOf(n) \notin keys
            Foreign(ns, r) ==
              op # "insert_notams"
                \/ ~ \E n \in ns : Label(n) = "NOTAM" /\ KeyOf(n) \in keys /\ r.src = n.nid
        IN  /\ {n \in nodes : Outside(n)} = {n \in nodes' : Outside(n)}
            /\ {r \in rels : Foreign(nodes, r)} = {r \in rels' : Foreign(nodes', r)}
    ]_vars

\* C20 witness: one aircraft record was upserted in a graph that holds another
\* aircraft, a weather cell, a sector and an attached NOTAM.
C20_Witness ==
  /\ last.op = "insert_aircraft" /\ last.ret = "ok" /\ Len(last.arg) = 1
  /\ \E n \in nodes : Label(n) = "Aircraft" /\ KeyOf(n) # last.arg[1].icao24
  /\ \E n \in nodes : Label(n) = "WeatherCell"
  /\ \E n \in nodes : Label(n) = "Sector"
  /\ rels # {}

====
